---- MODULE Spec2Model ----
(***************************************************************************)
(* Model of scripts/deploy.py: DeploymentOrchestrator.deploy() and main(). *)
(* Every kubectl invocation (subprocess.run) is a step whose response is   *)
(* chosen by the environment: exit status 0 with some stdout, a non-zero   *)
(* exit status, or a raised exception.                                     *)
(***************************************************************************)
EXTENDS Integers, Sequences, FiniteSets, TLC

\* ------------------------------------------------------------------ bounds
MaxRuns == 2        \* deploy() calls made on one orchestrator object
MaxHistLines == 3   \* lines of `kubectl rollout history` stdout
MaxPodOut == 3      \* symbols of `kubectl get pods` stdout
MaxEpOut == 2       \* symbols of `kubectl get endpoints` stdout

\* ------------------------------------------------------- values and inputs
None == "None"      \* Python None

SeqsUpTo(S, n) == UNION {[1..k -> S] : k \in 0..n}

\* A line of the history output is the sequence of its whitespace-separated
\* words; << >> is a blank line.
HistLines == { << >>,
               <<"deployment.apps/app">>,
               <<"REVISION", "CHANGE-CAUSE">>,
               <<"1", "<none>">>,
               <<"2", "<none>">> }

\* stdout of `kubectl get pods -o jsonpath={.items[*].status.phase}`: words
\* and blanks; adjacent words with no blank between them form one token.
PodSymbols == {"Running", "Pending", " "}

\* stdout of `kubectl get endpoints -o jsonpath={..ip}`
EpSymbols == {"10.0.0.1", " "}

\* What subprocess.run can do: return with status 0 and stdout `out`, return
\* with a non-zero status, or raise.
Ok(out) == [st |-> "ok", out |-> out]
NonZero == [st |-> "nonzero", out |-> << >>]
Raised == [st |-> "raised", out |-> << >>]
NoResp == [st |-> "none", out |-> << >>]

Responses(outs) == {Ok(o) : o \in outs} \cup {NonZero, Raised}

HistoryResponses == Responses(SeqsUpTo(HistLines, MaxHistLines))
CmdResponses == Responses({<< >>})
PodResponses == Responses(SeqsUpTo(PodSymbols, MaxPodOut))
EpResponses == Responses(SeqsUpTo(EpSymbols, MaxEpOut))

B(b) == IF b THEN "True" ELSE "False"

\* ------------------------------------------------------------ pure helpers
\* str.strip() seen at line granularity: leading and trailing blank lines go.
RECURSIVE StripFront(_)
StripFront(ls) ==
    IF ls = << >> THEN << >>
    ELSE IF Head(ls) = << >> THEN StripFront(Tail(ls)) ELSE ls

RECURSIVE StripBack(_)
StripBack(ls) ==
    IF ls = << >> THEN << >>
    ELSE IF ls[Len(ls)] = << >> THEN StripBack(SubSeq(ls, 1, Len(ls) - 1)) ELSE ls

\* result.stdout.strip().split('\n'): ''.split('\n') is [''], one blank line.
StripSplitLines(out) ==
    LET s == StripBack(StripFront(out))
    IN IF s = << >> THEN << << >> >> ELSE s

\* _get_current_revision
GetCurrentRevision(resp) ==
    IF resp.st = "ok"
    THEN LET lines == StripSplitLines(resp.out)
         IN IF Len(lines) > 1
            THEN IF lines[Len(lines)] = << >>
                 THEN None                         \* IndexError, caught
                 ELSE lines[Len(lines)][1]
            ELSE None
    ELSE None

\* str.split(): maximal runs of non-blank symbols, in order.
RECURSIVE SplitWS(_, _, _)
SplitWS(s, cur, acc) ==
    IF s = << >>
    THEN IF cur = << >> THEN acc ELSE Append(acc, cur)
    ELSE IF Head(s) = " "
         THEN SplitWS(Tail(s), << >>, IF cur = << >> THEN acc ELSE Append(acc, cur))
         ELSE SplitWS(Tail(s), Append(cur, Head(s)), acc)

Split(s) == SplitWS(s, << >>, << >>)

\* all(status == "Running" for status in statuses)
AllRunning(statuses) == \A i \in 1..Len(statuses) : statuses[i] = <<"Running">>

\* _check_pod_health
CheckPodHealth(resp) ==
    IF resp.st = "ok" THEN AllRunning(Split(resp.out)) ELSE FALSE

\* _check_service_endpoints
CheckServiceEndpoints(resp) ==
    IF resp.st = "ok" THEN Split(resp.out) # << >> ELSE FALSE

\* any() in place of all()
RunHealthChecks_Any(pod, ep) == pod \/ ep

\* _run_health_checks: all([pod, endpoints])
RunHealthChecks(pod, ep) == pod /\ ep

\* _apply_manifest
ApplyManifestResult(resp) == resp.st = "ok"

\* the return code of `rollout status` is not looked at
WaitForRolloutResult_NoRc(resp) == resp.st # "raised"

\* _wait_for_rollout
WaitForRolloutResult(resp) == resp.st = "ok"

\* the guard of lines 162-164 left out
Truthy_NoGuard(rev) == TRUE

\* `not self.rollback_revision`
Truthy(rev) == rev # None /\ rev # ""

\* the message _perform_rollback prints after subprocess.run
RollbackReport(st) == IF st = "raised" THEN "failed" ELSE "initiated"

\* undo to the newest revision the history could hold, not the captured one
UndoTarget_Latest(rev) == "2"

\* f"--to-revision={self.rollback_revision}", line 171
UndoTarget(rev) == rev

\* `... = self._get_current_revision() or self.rollback_revision`
StoreRevision_KeepOld(old, new) == IF new = None THEN old ELSE new

\* self.rollback_revision = self._get_current_revision(), line 27
StoreRevision(old, new) == new

\* a failed apply is tried again
AfterApply_Retry(ok) == IF ok THEN "wait" ELSE "apply"

\* deploy(), lines 31-33: a failed apply returns False at once
AfterApply(ok) == IF ok THEN "wait" ELSE "returned"

\* the result of _wait_for_rollout is not looked at
AfterWait_Ignore(ok) == "pods"

\* deploy(), lines 37-40: a failed rollout goes through _perform_rollback
AfterWait(ok) == IF ok THEN "pods" ELSE "rollback"

\* `return pod and endpoints`: the second check is skipped after a failed first
AfterPods_ShortCircuit(ok) == IF ok THEN "endpoints" ELSE "rollback"

\* _run_health_checks, lines 107-110: the list holds both calls, so the
\* endpoints check runs whatever the pod check returned
AfterPods(ok) == "endpoints"

\* failed health checks are polled again until they pass
AfterHealth_Retry(ok) == IF ok THEN "returned" ELSE "pods"

\* failed health checks return False without _perform_rollback
AfterHealth_NoRollback(ok) == "returned"

\* deploy(), lines 44-50: failed health checks go through _perform_rollback
AfterHealth(ok) == IF ok THEN "returned" ELSE "rollback"

\* the rolled-back state is health-checked again
AfterRollback_Recheck == "pods"

\* deploy(), lines 39-40 and 46-47: deploy() returns right after
\* _perform_rollback
AfterRollback == "returned"

\* deploy() reports a rollback as its own success
RollbackResult_True == "True"

\* deploy(), lines 40 and 47: `return False` after _perform_rollback
RollbackResult == "False"

\* sys.exit(0) whatever deploy() returned
ExitStatus_Zero(success) == 0

\* sys.exit(0 if success else 1)
ExitStatus(success) == IF success = "True" THEN 0 ELSE 1

\* -------------------------------------------------------------------- state
VARIABLES
    pc,                 \* position of the caller / of deploy()
    caller,             \* "main" (one run, then sys.exit) or "library"
    runs,               \* deploy() calls started on this object
    rollback_revision,  \* self.rollback_revision
    result,             \* return value of the current/last deploy()
    exitCode,           \* process exit status, -1 while running
    cmds,               \* kubectl commands issued by the current run, in order
    tracked,            \* what _get_current_revision returned in this run
    prevTracked,        \* what it returned in the run before this one
    histResp,           \* `result` of _get_current_revision, until the next command
    applyRes, waitRes, podRes, epRes, healthRes,   \* gate results of this run
    podResp, epResp,    \* responses the two health queries received
    rollbackCalls,      \* calls of _perform_rollback in this run
    rollbackArg,        \* self.rollback_revision as _perform_rollback read it
    rollbackLog         \* what _perform_rollback printed

vars == <<pc, caller, runs, rollback_revision, result, exitCode, cmds, tracked,
          prevTracked, histResp,
          applyRes, waitRes, podRes, epRes, healthRes, podResp, epResp,
          rollbackCalls, rollbackArg, rollbackLog>>

Cmd(op, rev, st) == [op |-> op, rev |-> rev, st |-> st]

Count(op) == Cardinality({i \in 1..Len(cmds) : cmds[i].op = op})

Init ==
    /\ pc = "idle"
    /\ caller \in {"main", "library"}
    /\ runs = 0
    /\ rollback_revision = None
    /\ result = "None"
    /\ exitCode = -1
    /\ cmds = << >>
    /\ tracked = None
    /\ prevTracked = None
    /\ histResp = NoResp
    /\ applyRes = "None" /\ waitRes = "None" /\ podRes = "None"
    /\ epRes = "None" /\ healthRes = "None"
    /\ podResp = NoResp /\ epResp = NoResp
    /\ rollbackCalls = 0
    /\ rollbackArg = None
    /\ rollbackLog = "none"

\* deploy(), lines 22-24: a call of deploy() starts; self.rollback_revision
\* still holds what the run before left in it.
Deploy ==
    /\ \/ pc = "idle"
       \/ pc = "returned" /\ caller = "library" /\ runs < MaxRuns
    /\ prevTracked' = tracked
    /\ tracked' = None
    /\ histResp' = NoResp
    /\ cmds' = << >>
    /\ runs' = runs + 1
    /\ result' = "None"
    /\ applyRes' = "None" /\ waitRes' = "None" /\ podRes' = "None"
    /\ epRes' = "None" /\ healthRes' = "None"
    /\ podResp' = NoResp /\ epResp' = NoResp
    /\ rollbackCalls' = 0
    /\ rollbackArg' = None
    /\ rollbackLog' = "none"
    /\ pc' = "tracker"
    /\ UNCHANGED <<caller, exitCode, rollback_revision>>

\* deploy(), lines 26-28: the Revision Tracker.
TrackRevision ==
    /\ pc = "tracker"
    /\ \E resp \in HistoryResponses :
        /\ rollback_revision' = StoreRevision(rollback_revision, GetCurrentRevision(resp))
        /\ tracked' = GetCurrentRevision(resp)
        /\ histResp' = resp
        /\ cmds' = << Cmd("history", None, resp.st) >>
    /\ pc' = "apply"
    /\ UNCHANGED <<caller, runs, result, exitCode, prevTracked, applyRes,
                   waitRes, podRes, epRes, healthRes, podResp, epResp,
                   rollbackCalls, rollbackArg, rollbackLog>>

\* deploy(), lines 30-33: the Manifest Applier gate.
ApplyManifest ==
    /\ pc = "apply"
    /\ \E resp \in CmdResponses :
        /\ cmds' = Append(cmds, Cmd("apply", None, resp.st))
        /\ applyRes' = B(ApplyManifestResult(resp))
        /\ histResp' = NoResp
        /\ pc' = AfterApply(ApplyManifestResult(resp))
        /\ result' = IF AfterApply(ApplyManifestResult(resp)) = "returned"
                     THEN "False" ELSE result
    /\ UNCHANGED <<caller, runs, rollback_revision, exitCode, tracked,
                   prevTracked, waitRes,
                   podRes, epRes, healthRes, podResp, epResp, rollbackCalls,
                   rollbackArg, rollbackLog>>

\* deploy(), lines 35-40: the Rollout Waiter gate.
WaitForRollout ==
    /\ pc = "wait"
    /\ \E resp \in CmdResponses :
        /\ cmds' = Append(cmds, Cmd("status", None, resp.st))
        /\ waitRes' = B(WaitForRolloutResult(resp))
        /\ pc' = AfterWait(WaitForRolloutResult(resp))
        /\ result' = IF AfterWait(WaitForRolloutResult(resp)) = "returned"
                     THEN "False" ELSE result
    /\ UNCHANGED <<caller, runs, rollback_revision, exitCode, tracked,
                   prevTracked, histResp,
                   applyRes, podRes, epRes, healthRes, podResp, epResp,
                   rollbackCalls, rollbackArg, rollbackLog>>

\* _run_health_checks, line 108: the pod-health sub-check.
CheckPods ==
    /\ pc = "pods"
    /\ \E resp \in PodResponses :
        /\ cmds' = Append(cmds, Cmd("pods", None, resp.st))
        /\ podResp' = resp
        /\ podRes' = B(CheckPodHealth(resp))
        /\ pc' = AfterPods(CheckPodHealth(resp))
    /\ UNCHANGED <<caller, runs, rollback_revision, result, exitCode, tracked,
                   prevTracked, histResp,
                   applyRes, waitRes, epRes, healthRes, epResp, rollbackCalls,
                   rollbackArg, rollbackLog>>

\* _run_health_checks, lines 109-111, and deploy(), lines 44-50.
CheckEndpoints ==
    /\ pc = "endpoints"
    /\ \E resp \in EpResponses :
        LET h == RunHealthChecks(podRes = "True", CheckServiceEndpoints(resp))
        IN /\ cmds' = Append(cmds, Cmd("endpoints", None, resp.st))
           /\ epResp' = resp
           /\ epRes' = B(CheckServiceEndpoints(resp))
           /\ healthRes' = B(h)
           /\ pc' = AfterHealth(h)
           /\ result' = IF AfterHealth(h) = "returned" THEN B(h) ELSE result
    /\ UNCHANGED <<caller, runs, rollback_revision, exitCode, tracked,
                   prevTracked, histResp, applyRes,
                   waitRes, podRes, podResp, rollbackCalls, rollbackArg,
                   rollbackLog>>

\* _perform_rollback, lines 160-176, then `return False` (lines 40, 47).
PerformRollback ==
    /\ pc = "rollback"
    /\ rollbackCalls' = rollbackCalls + 1
    /\ rollbackArg' = rollback_revision
    /\ IF ~Truthy(rollback_revision)
       THEN /\ rollbackLog' = "skipped"
            /\ UNCHANGED cmds
       ELSE \E st \in {"ok", "nonzero", "raised"} :
            /\ cmds' = Append(cmds, Cmd("undo", UndoTarget(rollback_revision), st))
            /\ rollbackLog' = RollbackReport(st)
    /\ result' = RollbackResult
    /\ pc' = AfterRollback
    /\ UNCHANGED <<caller, runs, rollback_revision, exitCode, tracked,
                   prevTracked, histResp, applyRes,
                   waitRes, podRes, epRes, healthRes, podResp, epResp>>

\* main(), line 190.
SysExit ==
    /\ pc = "returned"
    /\ caller = "main"
    /\ exitCode' = ExitStatus(result)
    /\ pc' = "exited"
    /\ UNCHANGED <<caller, runs, rollback_revision, result, cmds, tracked,
                   prevTracked, histResp, applyRes, waitRes, podRes, epRes, healthRes, podResp, epResp,
                   rollbackCalls, rollbackArg, rollbackLog>>

Next ==
    \/ Deploy
    \/ TrackRevision
    \/ ApplyManifest
    \/ WaitForRollout
    \/ CheckPods
    \/ CheckEndpoints
    \/ PerformRollback
    \/ SysExit

Spec == Init /\ [][Next]_vars

\* Every kubectl call returns or raises, so a deploy() that has started takes
\* its next step; whether the caller starts another run or exits is its own.
FairSpec ==
    /\ Spec
    /\ WF_vars(TrackRevision)
    /\ WF_vars(ApplyManifest)
    /\ WF_vars(WaitForRollout)
    /\ WF_vars(CheckPods)
    /\ WF_vars(CheckEndpoints)
    /\ WF_vars(PerformRollback)

\* ------------------------------------------------------------------ claims
Done == pc \in {"returned", "exited"}

Mutating == {"apply", "undo"}

\* DeploymentOutcome of the current/last run, read off what deploy() returned
\* and what _perform_rollback printed.
Outcome ==
    IF result = "True" THEN "Success"
    ELSE IF rollbackLog = "initiated" THEN "FailedRolledBack"
    ELSE IF rollbackLog = "failed" THEN "FailedRollbackFailed"
    ELSE "FailedNoRollback"

Issued(op, st) == \E i \in 1..Len(cmds) : cmds[i].op = op /\ cmds[i].st = st

UndoTargets == {cmds[i].rev : i \in {j \in 1..Len(cmds) : cmds[j].op = "undo"}}

\* the gate whose command is cmds[i] reported failure
GateFailedAt(i) ==
    \/ cmds[i].op = "apply" /\ applyRes = "False"
    \/ cmds[i].op = "status" /\ waitRes = "False"
    \/ cmds[i].op = "pods" /\ podRes = "False"
    \/ cmds[i].op = "endpoints" /\ epRes = "False"

\* C1: when the apply command is rejected or raises, _perform_rollback is
\* called with the tracked revision before deploy() returns, and the run
\* returns False.
C1_ApplyFailureRollsBack ==
    (Done /\ applyRes = "False") =>
        /\ rollbackCalls >= 1
        /\ rollbackArg = tracked
        /\ result = "False"

\* C2: the revision handed to the rollback equals what the tracker returned
\* before the apply: the history is queried exactly once per run, as the
\* first command, and self.rollback_revision keeps that value to the end of
\* the run whichever gate fails.
C2_RollbackTargetImmutable ==
    (runs > 0 /\ pc # "tracker") =>
        /\ rollback_revision = tracked
        /\ Count("history") = 1
        /\ cmds[1].op = "history"
        /\ UndoTargets \subseteq {tracked}
        /\ rollbackCalls > 0 => rollbackArg = tracked

C2_Witness ==
    /\ pc = "returned"
    /\ healthRes = "False"
    /\ tracked = "1"
    /\ UndoTargets = {"1"}

\* C3 as stated: a rollout wait that timed out (non-zero status) with a
\* captured revision always ends in FailedRolledBack, with exactly one undo
\* to the captured revision and deploy() returning False.
C3_TimeoutFailedRolledBack ==
    (Done /\ Issued("status", "nonzero") /\ Truthy(tracked)) =>
        /\ Outcome = "FailedRolledBack"
        /\ Count("undo") = 1
        /\ UndoTargets = {tracked}
        /\ result = "False"

\* C3 amended: a rollout wait that timed out with a captured revision ends
\* in FailedRolledBack or, only when the undo request itself errored, in
\* FailedRollbackFailed; exactly one undo to the captured revision is
\* attempted and deploy() returns False.
C3_TimeoutRollsBackOnce ==
    (Done /\ Issued("status", "nonzero") /\ Truthy(tracked)) =>
        /\ Outcome \in {"FailedRolledBack", "FailedRollbackFailed"}
        /\ Outcome = "FailedRollbackFailed" => ~Issued("undo", "ok")
        /\ Count("undo") = 1
        /\ UndoTargets = {tracked}
        /\ result = "False"

C3_Witness ==
    /\ pc = "returned"
    /\ Issued("status", "nonzero")
    /\ tracked = "2"
    /\ Issued("undo", "raised")
    /\ Outcome = "FailedRollbackFailed"

\* C4: when the tracker returned no revision, no undo is ever issued, no
\* mutating command follows a failed gate, and a run in which a gate failed
\* ends as FailedNoRollback.
C4_NoRollbackOnFirstDeploy ==
    (runs > 0 /\ tracked = None) =>
        /\ Count("undo") = 0
        /\ \A i, j \in 1..Len(cmds) :
              (i < j /\ GateFailedAt(i)) => cmds[j].op \notin Mutating
        /\ (Done /\ "False" \in {applyRes, waitRes, healthRes}) =>
              /\ result = "False"
              /\ Outcome = "FailedNoRollback"

C4_Witness ==
    /\ pc = "returned"
    /\ tracked = None
    /\ healthRes = "False"
    /\ rollbackLog = "skipped"
    /\ Outcome = "FailedNoRollback"

\* every pod phase in the listing is Running: the query returned status 0, no
\* symbol is another phase and no two phase words run together
EveryPodRunning(resp) ==
    /\ resp.st = "ok"
    /\ \A i \in 1..Len(resp.out) : resp.out[i] \in {"Running", " "}
    /\ \A i \in 1..(Len(resp.out) - 1) :
          ~(resp.out[i] = "Running" /\ resp.out[i + 1] = "Running")

\* the endpoints query returned status 0 and at least one address
SomeEndpoint(resp) ==
    /\ resp.st = "ok"
    /\ \E i \in 1..Len(resp.out) : resp.out[i] # " "

\* C5: the validator returns true iff both sub-checks pass: all Running with
\* no endpoint is false, an endpoint with a pod not Running is false, a query
\* error fails its sub-check, and all Running with an endpoint is true.
C5_HealthRequiresBoth ==
    healthRes # "None" =>
        /\ healthRes = B(podRes = "True" /\ epRes = "True")
        /\ healthRes = B(EveryPodRunning(podResp) /\ SomeEndpoint(epResp))
        /\ podResp.st # "ok" => podRes = "False"
        /\ epResp.st # "ok" => epRes = "False"

C5_Witness ==
    /\ healthRes = "False"
    /\ podResp = Ok(<<"Running", " ", "Running">>)
    /\ podRes = "True"
    /\ epResp = Ok(<< >>)

\* C6: a pod listing that succeeds with zero instances fails the pod-health
\* sub-check, so such a run cannot return True.
C6_EmptyPodListFails ==
    (podResp.st = "ok" /\ Split(podResp.out) = << >>) =>
        /\ podRes = "False"
        /\ result # "True"

\* C7: when the validator returns false after a successful apply and
\* rollout, _perform_rollback is called exactly once with the tracked
\* revision and deploy() returns False, whatever the rollback did.
C7_HealthFailureRollsBack ==
    (Done /\ applyRes = "True" /\ waitRes = "True" /\ healthRes = "False") =>
        /\ rollbackCalls = 1
        /\ rollbackArg = tracked
        /\ rollbackLog \in {"skipped", "initiated", "failed"}
        /\ Truthy(tracked) => (Count("undo") = 1 /\ UndoTargets = {tracked})
        /\ result = "False"

C7_Witness ==
    /\ pc = "returned"
    /\ healthRes = "False"
    /\ rollbackCalls = 1
    /\ Issued("undo", "nonzero")
    /\ result = "False"

\* C8: a rejected (non-zero) or raising undo request makes the outcome
\* FailedRollbackFailed and is reported as failed; the rollback is reported
\* as initiated only when the control plane accepted the undo.
C8_RejectedUndoReportedFailed ==
    /\ (Issued("undo", "nonzero") \/ Issued("undo", "raised")) =>
          (Outcome = "FailedRollbackFailed" /\ rollbackLog = "failed")
    /\ Outcome = "FailedRolledBack" => Issued("undo", "ok")

\* C9: the process exits with 0 iff the run is a Success, that is iff apply
\* was accepted, the rollout wait converged and both health sub-checks
\* passed; any other run exits non-zero.
C9_ExitZeroIffSuccess ==
    pc = "exited" =>
        /\ exitCode \in {0, 1}
        /\ exitCode = 0 <=> Outcome = "Success"
        /\ exitCode = 0 <=>
              /\ Issued("apply", "ok")
              /\ Issued("status", "ok")
              /\ podRes = "True"
              /\ epRes = "True"

C9_Witness ==
    /\ pc = "exited"
    /\ exitCode = 1
    /\ applyRes = "True"
    /\ waitRes = "True"
    /\ podRes = "True"
    /\ epRes = "False"

\* C10: within one run apply, rollout status, the pod query, the endpoints
\* query and undo are each issued at most once, and a run that returns True
\* issued apply, rollout status and each health query exactly once.
C10_SingleAttemptPerGate ==
    /\ \A op \in {"apply", "status", "pods", "endpoints", "undo"} : Count(op) <= 1
    /\ (Done /\ result = "True") =>
          \A op \in {"apply", "status", "pods", "endpoints"} : Count(op) = 1

C10_Witness ==
    /\ pc = "returned"
    /\ result = "True"
    /\ runs = 2
    /\ Len(cmds) = 5

\* the last command issued by the current run
LastCmd == cmds[Len(cmds)]

\* C11: once the undo request has been issued the run issues nothing more:
\* no rollout status, no health query and no second undo follow it, even
\* when the undo failed; _perform_rollback runs at most once and the run
\* has returned right after it.
C11_NothingAfterUndo ==
    /\ \A i \in 1..Len(cmds) : cmds[i].op = "undo" => i = Len(cmds)
    /\ rollbackCalls <= 1
    /\ rollbackCalls = 1 => Done

C11_Witness ==
    /\ pc = "returned"
    /\ waitRes = "False"
    /\ LastCmd.op = "undo"
    /\ LastCmd.st = "nonzero"
    /\ Count("pods") = 0

\* a revision record of the history output
IsRecord(line) == line # << >> /\ line[1] \in {"1", "2"}

\* the history output as kubectl prints it: the resource line, the column
\* header, then the revision records
WellFormed(out) ==
    LET ls == StripSplitLines(out)
    IN /\ Len(ls) >= 2
       /\ ls[1] = <<"deployment.apps/app">>
       /\ ls[2] = <<"REVISION", "CHANGE-CAUSE">>
       /\ \A i \in 3..Len(ls) : IsRecord(ls[i])

NoRecords(out) == \A i \in 1..Len(out) : ~IsRecord(out[i])

\* a history with no revision in it: no output at all, or the header alone
EmptyHistory(resp) ==
    /\ resp.st = "ok"
    /\ NoRecords(resp.out)
    /\ \/ \A i \in 1..Len(resp.out) : resp.out[i] = << >>
       \/ WellFormed(resp.out)

\* C12: a failed history query (non-zero status, raised error, empty
\* history) does not fail the run: the tracker yields no revision and
\* deploy() goes on to the apply.
C12_TrackerFailureAbsorbed ==
    (histResp.st \in {"nonzero", "raised"} \/ EmptyHistory(histResp)) =>
        /\ tracked = None
        /\ rollback_revision = None
        /\ pc = "apply"
        /\ result = "None"

RankOf(op) ==
    CASE op = "history" -> 1
      [] op = "apply" -> 2
      [] op = "status" -> 3
      [] op = "pods" -> 4
      [] op = "endpoints" -> 5
      [] op = "undo" -> 6

\* C14: the commands of a run follow the order history, apply, rollout
\* status, pod query, endpoints query; rollout status comes only right after
\* an accepted apply, the health queries only after a converged rollout
\* status, and no gate command follows a failed apply, rollout wait or
\* validation.
C14_GatesInOrder ==
    /\ \A i, j \in 1..Len(cmds) : i < j => RankOf(cmds[i].op) < RankOf(cmds[j].op)
    /\ \A i \in 1..Len(cmds) :
          /\ cmds[i].op = "apply" => (i = 2 /\ cmds[1].op = "history")
          /\ cmds[i].op = "status" =>
                (i = 3 /\ cmds[2].op = "apply" /\ cmds[2].st = "ok")
          /\ cmds[i].op = "pods" =>
                (i = 4 /\ cmds[3].op = "status" /\ cmds[3].st = "ok")
          /\ cmds[i].op = "endpoints" => (i = 5 /\ cmds[4].op = "pods")
    /\ \A i, j \in 1..Len(cmds) :
          (i < j /\ cmds[i].op \in {"apply", "status"} /\ cmds[i].st # "ok") =>
              cmds[j].op \notin {"apply", "status", "pods", "endpoints"}
    /\ healthRes = "False" => LastCmd.op \in {"endpoints", "undo"}

C14_Witness ==
    /\ pc = "returned"
    /\ Len(cmds) = 4
    /\ cmds[3] = Cmd("status", None, "raised")
    /\ cmds[4] = Cmd("undo", "1", "ok")

C16_BothChecksAttempted ==
    (Count("pods") = 1 /\ pc # "endpoints") =>
        /\ Count("endpoints") = 1
        /\ cmds[5].op = "endpoints"
        /\ podRes = "False" => healthRes = "False"

C16_Witness ==
    /\ podResp = Raised
    /\ podRes = "False"
    /\ epResp = Ok(<<"10.0.0.1">>)
    /\ epRes = "True"
    /\ healthRes = "False"

InRun == pc \in {"tracker", "apply", "wait", "pods", "endpoints", "rollback"}

Outcomes == {"Success", "FailedNoRollback", "FailedRolledBack", "FailedRollbackFailed"}

\* C17: when every kubectl call returns, a deploy() that has started
\* eventually returns with one of the four outcomes, and no run issues more
\* than six commands.
C17_Terminates ==
    /\ [](Len(cmds) <= 6)
    /\ InRun ~> (Done /\ Outcome \in Outcomes)

C17_Witness ==
    /\ pc = "returned"
    /\ Len(cmds) = 6
    /\ Outcome = "FailedRolledBack"

\* C18: a run that returns True issued no undo and exactly one mutating
\* command, the apply; a run that issued an undo returns False.
C18_SuccessNeverUndoes ==
    /\ (Done /\ result = "True") =>
          /\ Count("undo") = 0
          /\ rollbackCalls = 0
          /\ Cardinality({i \in 1..Len(cmds) : cmds[i].op \in Mutating}) = 1
          /\ cmds[2].op = "apply"
    /\ (Done /\ Count("undo") >= 1) => result = "False"

C18_Witness ==
    /\ pc = "returned"
    /\ result = "True"
    /\ tracked = "2"
    /\ Count("undo") = 0

\* C19: in a second or later deploy() on the same object the rollback target
\* is what that run's own history query returned: no undo goes to a revision
\* of an earlier run, and when the query returned no revision no undo is
\* issued.
C19_TargetPerRun ==
    (runs >= 2 /\ pc # "tracker") =>
        /\ rollback_revision = tracked
        /\ \A i \in 1..Len(cmds) : cmds[i].op = "undo" => cmds[i].rev = tracked
        /\ tracked = None => Count("undo") = 0
        /\ rollbackCalls > 0 => rollbackArg = tracked

C19_Witness ==
    /\ runs = 2
    /\ pc = "returned"
    /\ prevTracked = "1"
    /\ tracked = None
    /\ healthRes = "False"
    /\ rollbackLog = "skipped"

====
